---- MODULE Spec2Model ----
(***************************************************************************)
(* Model of beast/tools/run/make_ast_inputs.py: the orchestration of the   *)
(* artificial-star-test input list.  One run of make_ast_inputs resolves   *)
(* the magnitude cuts, selects (or reloads) the SEDs and assigns           *)
(* positions.  Magnitudes are integers in units of 0.1 mag.                *)
(***************************************************************************)
EXTENDS Integers, Sequences, FiniteSets, TLC

VARIABLES
    datamodel,              \* the configuration module (reloaded each run)
    obsmags,                \* the observed catalog: filter -> magnitudes
    fs,                     \* the project directory: artifact -> content
    pc,                     \* position of the run inside make_ast_inputs
    flux_bin_method,        \* argument of the current run
    mag_cuts,               \* local: magnitude cut vector
    modelsedgrid_filename,  \* local: path of the SED grid
    seds_isfile,            \* whether the SED list existed at the cache check
    chosen_seds,            \* local: the chosen SED set
    calls,                  \* collaborator invocations of the current run
    prev,                   \* summary of the previous run
    error,                  \* the exception that ended the run, if any
    argv,                   \* script: the --flux_bin_method argument given
    help_printed,           \* script: whether parser.print_help() ran
    rpc,                    \* two concurrent runs: position of each run
    rmiss,                  \* two concurrent runs: outcome of line 76
    rfbm,                   \* two concurrent runs: argument of each run
    rcalls                  \* two concurrent runs: sampler invocations

vars == <<datamodel, obsmags, fs, pc, flux_bin_method, mag_cuts,
          modelsedgrid_filename, seds_isfile, chosen_seds, calls, prev,
          error, argv, help_printed, rpc, rmiss, rfbm, rcalls>>

cli == <<argv, help_printed>>

race == <<rpc, rmiss, rfbm, rcalls>>

(* What a single run of make_ast_inputs owns *)
single == <<datamodel, obsmags, pc, flux_bin_method, mag_cuts,
            modelsedgrid_filename, seds_isfile, chosen_seds, calls, prev,
            error>>

----------------------------------------------------------------------------
(* Bounds of the model *)

MaxFilters == 2

MaxRows == 2

(* Program constants *)

Sentinel == 990

PercentileQ == 90

----------------------------------------------------------------------------
(* Values *)

AllFilters == <<"F1", "F2", "F3", "F4">>

(* Catalog magnitudes; a non-detection is marked 99.0 in one filter and   *)
(* 100.0 in the others.                                                   *)
Mags(f) == {100, 200, IF f = "F1" THEN Sentinel ELSE 1000}

CutValues == {10, 20}

SedTables == {"sedsA", "sedsB"}

Absent == [exists |-> FALSE]

Unbound == "unbound"

None == "none"

NoRun == [ran |-> FALSE]

NaN == 0 - 1

project == "proj"

Prefix(s, n) == [i \in 1..n |-> s[i]]

SeqsUpTo(S, n) == UNION {[1..m -> S] : m \in 1..n}

----------------------------------------------------------------------------
(* Artifact paths, namespaced by the project *)

outfile_seds == <<project, "_inputAST_seds.txt">>

outfile_params == <<project, "_ASTparams.fits">>

bins_outfile == <<project, "_ASTfluxbins.txt">>

sedgrid_path == <<project, "_seds.grid.hd5">>

outfile_AST == <<project, "_inputAST.txt">>

Artifacts == {outfile_seds, outfile_params, bins_outfile, outfile_AST}

isfile(path) == fs[path].exists

CacheMissOnMethodChange ==
    \/ ~isfile(outfile_seds)
    \/ (prev.ran /\ prev.flux_bin_method # flux_bin_method)

CacheMissAlways == TRUE

(* line 76: if not os.path.isfile(outfile_seds) *)
CacheMiss == ~isfile(outfile_seds)

----------------------------------------------------------------------------
(* The observation catalog *)

resolve_alias(filtername) ==
    IF filtername = "F2" THEN <<filtername, "_", "rate">>
    ELSE <<filtername, "_", "RATE">>

replace(name, old, new) ==
    [i \in DOMAIN name |-> IF name[i] = old THEN new ELSE name[i]]

FluxOf(mag) == IF mag >= Sentinel THEN 0 ELSE 1000 - mag

get_obscat(mags, filters) ==
    LET fset == {filters[i] : i \in DOMAIN filters} \cap DOMAIN mags
        cols == {resolve_alias(f) : f \in fset}
                  \cup {replace(replace(resolve_alias(f), "rate", "vega"),
                                "RATE", "VEGA") : f \in fset}
    IN [filters |-> filters,
        data |-> [c \in cols |->
                    LET f == c[1]
                    IN IF c[3] \in {"rate", "RATE"}
                       THEN [r \in DOMAIN mags[f] |-> FluxOf(mags[f][r])]
                       ELSE mags[f]]]

----------------------------------------------------------------------------
(* numpy helpers *)

RECURSIVE Insert(_, _)
Insert(x, s) ==
    IF s = <<>> THEN <<x>>
    ELSE IF x <= Head(s) THEN <<x>> \o s
    ELSE <<Head(s)>> \o Insert(x, Tail(s))

RECURSIVE Sort(_)
Sort(s) == IF s = <<>> THEN <<>> ELSE Insert(Head(s), Sort(Tail(s)))

RECURSIVE where_lt(_, _, _)
where_lt(col, bound, i) ==
    IF i > Len(col) THEN <<>>
    ELSE IF col[i] < bound THEN <<i>> \o where_lt(col, bound, i + 1)
    ELSE where_lt(col, bound, i + 1)

take(col, keep) == [j \in DOMAIN keep |-> col[keep[j]]]

(* linear interpolation at rank q/100 * (n - 1) of the sorted values; nan *)
(* for an empty selection                                                *)
percentile(a, q) ==
    LET n == Len(a)
        s == Sort(a)
        vi == q * (n - 1)
        lo == vi \div 100
        hi == IF lo + 1 > n - 1 THEN n - 1 ELSE lo + 1
    IN IF n = 0 THEN NaN
       ELSE s[lo + 1] + ((s[hi + 1] - s[lo + 1]) * (vi % 100)) \div 100

fadd(a, b) == IF a = NaN \/ b = NaN THEN NaN ELSE a + b

broadcast_add_second(a, b) == [k \in DOMAIN b |-> fadd(a[k], b[k])]

broadcast_add(a, b) ==
    [k \in 1..(IF Len(a) = 1 THEN Len(b) ELSE Len(a)) |->
        fadd(IF Len(a) = 1 THEN a[1] ELSE a[k],
             IF Len(b) = 1 THEN b[1] ELSE b[k])]

----------------------------------------------------------------------------
(* Magnitude cuts, lines 48-62 *)

KeepBoundInclusive == Sentinel + 1

(* line 58: obsdata[sfiltername] < 99.0 *)
KeepBound == Sentinel

min_mag(obsdata, filtername) ==
    LET sfiltername == replace(replace(resolve_alias(filtername),
                                       "rate", "vega"), "RATE", "VEGA")
        keep == where_lt(obsdata.data[sfiltername], KeepBound, 1)
    IN percentile(take(obsdata.data[sfiltername], keep), PercentileQ)

IsScalarCutAny(cuts) == Len(cuts) >= 1

(* line 51 *)
IsScalarCut(cuts) == Len(cuts) = 1

ResolveMagCuts(cuts, obsdata) ==
    IF IsScalarCut(cuts)
    THEN LET min_mags == [k \in DOMAIN obsdata.filters |->
                             min_mag(obsdata, obsdata.filters[k])]
         IN broadcast_add(min_mags, cuts)
    ELSE cuts

----------------------------------------------------------------------------
(* Table I/O *)

FileOf(format, rows) == [exists |-> TRUE, format |-> format, rows |-> rows]

TableWrite(table) == FileOf("ascii", table)

TableRead(content) == content.rows

----------------------------------------------------------------------------
(* Initial state: a configuration, a catalog and a project directory *)

FilterLists == {Prefix(AllFilters, n) : n \in 1..MaxFilters}

Columns(f) == [1..MaxRows -> Mags(f)]

PlainColumn == [r \in 1..MaxRows |-> IF r = 1 THEN 200 ELSE 100]

RECURSIVE CatalogsOver(_, _)
CatalogsOver(filters, plain) ==
    LET cols == IF plain THEN {PlainColumn} ELSE Columns(filters[1])
    IN IF Len(filters) = 1
       THEN {filters[1] :> col : col \in cols}
       ELSE {(filters[1] :> col) @@ c :
               col \in cols, c \in CatalogsOver(Tail(filters), plain)}

PositionFlags ==
    [ast_with_positions : BOOLEAN,
     ast_source_density_table : {None, "sd_map.hd5"},
     ast_background_table : {None, "bg_map.hd5"}]

Config(filters, cuts, flags) ==
    [filters |-> filters,
     ast_maglimit |-> cuts,
     ast_with_positions |-> flags.ast_with_positions,
     ast_source_density_table |-> flags.ast_source_density_table,
     ast_background_table |-> flags.ast_background_table]

EmptyDir == [a \in Artifacts |-> Absent]

Manifest(strategy, seds) ==
    FileOf("ascii", [strategy |-> strategy, seds |-> seds])

(* The directory a run finds: empty, or holding the SED list of an earlier *)
(* selection and possibly the manifest of an earlier position assignment. *)
InitialDirs ==
    {EmptyDir} \cup
    UNION {{[EmptyDir EXCEPT ![outfile_seds] = TableWrite(t),
                             ![outfile_params] = FileOf("fits", t),
                             ![outfile_AST] = m] :
                m \in {Absent, Manifest("background", t)}} :
           t \in SedTables}

(* The inputs vary one group at a time around a plain input: the catalog, *)
(* the cut vector, and the position flags with the project directory.     *)
(* The groups meet only in mag_cuts, which the samplers receive and the   *)
(* branch conditions never read.                                          *)

PlainCatalog(filters) == CHOOSE c \in CatalogsOver(filters, TRUE) : TRUE

(* The catalogs in which the columns of at most two filters are any      *)
(* columns; the cut of a filter is computed from its own column alone     *)
(* (lines 54-59)                                                          *)
Catalogs(filters) ==
    UNION {UNION {{[PlainCatalog(filters) EXCEPT ![filters[j]] = a,
                                                 ![filters[k]] = b] :
                      a \in Columns(filters[j]), b \in Columns(filters[k])} :
                  j \in DOMAIN filters} :
           k \in DOMAIN filters}

(* A catalog that lacks the column of the last filter *)
CatalogWithout(filters) ==
    [f \in {filters[i] : i \in 1..(Len(filters) - 1)} |-> PlainColumn]

PlainCuts == <<10>>

PlainFlags ==
    [ast_with_positions |-> FALSE,
     ast_source_density_table |-> None,
     ast_background_table |-> None]

InitInputs ==
    \E filters \in FilterLists :
      \/ \E cat \in Catalogs(filters) :
            /\ datamodel = Config(filters, PlainCuts, PlainFlags)
            /\ obsmags = cat
            /\ fs = EmptyDir
      \/ \E cuts \in SeqsUpTo(CutValues, MaxFilters) :
            /\ datamodel = Config(filters, cuts, PlainFlags)
            /\ obsmags = PlainCatalog(filters)
            /\ fs = EmptyDir
      \/ \E flags \in PositionFlags, dir \in InitialDirs :
            /\ datamodel = Config(filters, PlainCuts, flags)
            /\ obsmags = PlainCatalog(filters)
            /\ fs = dir
      \/ /\ datamodel = Config(filters, PlainCuts,
                                [PlainFlags EXCEPT
                                    !.ast_with_positions = TRUE])
         /\ obsmags = CatalogWithout(filters)
         /\ fs = EmptyDir

(* No run of make_ast_inputs has started *)
InitLocals ==
    /\ pc = "idle"
    /\ flux_bin_method = TRUE
    /\ mag_cuts = <<>>
    /\ modelsedgrid_filename = Unbound
    /\ seds_isfile = FALSE
    /\ chosen_seds = None
    /\ calls = <<>>
    /\ prev = NoRun
    /\ error = None

(* make_ast_inputs called as a function: no script arguments *)
NoScript ==
    /\ argv = <<>>
    /\ help_printed = FALSE

Runs == {1, 2}

(* One run at a time *)
NoRace ==
    /\ rpc = [r \in Runs |-> "off"]
    /\ rmiss = [r \in Runs |-> FALSE]
    /\ rfbm = [r \in Runs |-> TRUE]
    /\ rcalls = <<>>

Init ==
    /\ InitInputs
    /\ InitLocals
    /\ NoScript
    /\ NoRace

----------------------------------------------------------------------------
(* Collaborators: the samplers and the position strategies write their    *)
(* output files and return, or raise; the content a sampler selects is    *)
(* not fixed.                                                             *)

Call(fn, args) == [fn |-> fn, args |-> args]

Fns(cs) == {cs[i].fn : i \in DOMAIN cs}

Samplers == {"pick_models_toothpick_style", "pick_models"}

PositionStrategies == {"pick_positions_from_map", "pick_positions"}

RunSummary ==
    [ran |-> TRUE,
     datamodel |-> datamodel,
     flux_bin_method |-> flux_bin_method,
     seds_isfile |-> seds_isfile,
     chosen_seds |-> chosen_seds,
     samplers |-> Fns(calls) \cap Samplers,
     error |-> error,
     seds_after |-> fs[outfile_seds]]

(* A file whose writer was cut short *)
TruncatedFile == [exists |-> TRUE, format |-> "truncated", rows |-> None]

Complete(file) == file.exists => file.format \in {"ascii", "fits"}

SamplerFailureLeavesPartial(dir) ==
    [dir EXCEPT ![outfile_seds] = TruncatedFile]

(* a sampler that raises has persisted nothing *)
SamplerFailureEffect(dir) == dir

PositionFailureLeavesPartial(dir) ==
    [dir EXCEPT ![outfile_AST] = TruncatedFile]

(* a position strategy that raises has persisted nothing *)
PositionFailureEffect(dir) == dir

----------------------------------------------------------------------------
(* Branch conditions of make_ast_inputs *)

UseFluxBinsAlways == TRUE

(* line 80 *)
UseFluxBins == flux_bin_method

WithPositionsAlways == TRUE

(* line 125 *)
WithPositions == datamodel.ast_with_positions

UseSourceDensityUnlessBackground ==
    /\ datamodel.ast_source_density_table # None
    /\ datamodel.ast_background_table = None

(* line 133 *)
UseSourceDensity == datamodel.ast_source_density_table # None

(* line 150 *)
UseBackground == datamodel.ast_background_table # None

(* Control flow of make_ast_inputs *)

ReachedPositionsEarly == pc \in {"select", "positions"}

(* line 125 is reached once the selection of lines 76-117 has returned *)
ReachedPositions == pc = "positions"

AfterSelectionFailureContinue == "positions"

(* lines 51-117 hold no try/except: an exception leaves make_ast_inputs *)
AfterSelectionFailure == "aborted"

PositionsAgain == "positions"

(* lines 133-173: one if/elif/else, then the function returns *)
PositionsDone == "done"

----------------------------------------------------------------------------
(* make_ast_inputs, lines 28-49: a run starts with the configuration dm   *)

BeginRun(fbm, dm) ==
    /\ datamodel' = dm
    /\ flux_bin_method' = fbm
    /\ prev' = IF pc = "idle" THEN NoRun ELSE RunSummary
    /\ mag_cuts' = dm.ast_maglimit
    /\ modelsedgrid_filename' = Unbound
    /\ seds_isfile' = FALSE
    /\ chosen_seds' = None
    /\ calls' = <<>>
    /\ error' = None
    /\ pc' = "cuts"
    /\ UNCHANGED <<obsmags, fs, race>>

StartRun ==
    /\ pc \in {"idle", "done", "aborted"}
    /\ \E fbm \in BOOLEAN : BeginRun(fbm, datamodel)
    /\ UNCHANGED cli

(* line 58: obsdata[sfiltername] of a column the catalog does not hold *)
MissingColumn(obsdata) ==
    \E k \in DOMAIN obsdata.filters :
        replace(replace(resolve_alias(obsdata.filters[k]), "rate", "vega"),
                "RATE", "VEGA") \notin DOMAIN obsdata.data

(* lines 51-62 *)
ConstructMagCuts ==
    /\ pc = "cuts"
    /\ LET obsdata == get_obscat(obsmags, datamodel.filters)
       IN IF IsScalarCut(mag_cuts) /\ MissingColumn(obsdata)
          THEN /\ error' = "KeyError"
               /\ pc' = AfterSelectionFailure
               /\ UNCHANGED mag_cuts
          ELSE /\ mag_cuts' = ResolveMagCuts(mag_cuts, obsdata)
               /\ pc' = "select"
               /\ UNCHANGED error
    /\ UNCHANGED <<datamodel, obsmags, fs, flux_bin_method,
                   modelsedgrid_filename, seds_isfile, chosen_seds, calls,
                   prev, cli, race>>

(* lines 76-97 *)
SelectFluxBin ==
    /\ pc = "select"
    /\ CacheMiss
    /\ UseFluxBins
    /\ seds_isfile' = fs[outfile_seds].exists
    /\ modelsedgrid_filename' = sedgrid_path
    /\ calls' = Append(calls,
          Call("pick_models_toothpick_style",
               [grid |-> sedgrid_path,
                filters |-> datamodel.filters,
                mag_cuts |-> mag_cuts,
                Nfilter |-> "ast_bands_above_maglimit",
                sizing |-> <<"ast_n_flux_bins", "ast_n_per_flux_bin">>,
                outfile |-> outfile_seds,
                outfile_params |-> outfile_params,
                bins_outfile |-> bins_outfile]))
    /\ \/ \E t \in SedTables :
             /\ fs' = [fs EXCEPT ![outfile_seds] = TableWrite(t),
                                 ![outfile_params] = FileOf("fits", t),
                                 ![bins_outfile] = FileOf("ascii", "fluxbins")]
             /\ chosen_seds' = t
             /\ pc' = "positions"
             /\ UNCHANGED error
       \/ /\ fs' = SamplerFailureEffect(fs)
          /\ error' = "SamplerError"
          /\ pc' = AfterSelectionFailure
          /\ UNCHANGED chosen_seds
    /\ UNCHANGED <<datamodel, obsmags, flux_bin_method, mag_cuts, prev, cli,
                   race>>

(* lines 76, 99-112: modelsedgrid_filename is bound only at line 85 *)
SelectRandom ==
    /\ pc = "select"
    /\ CacheMiss
    /\ ~UseFluxBins
    /\ seds_isfile' = fs[outfile_seds].exists
    /\ IF modelsedgrid_filename = Unbound
       THEN /\ error' = "UnboundLocalError"
            /\ pc' = "aborted"
            /\ UNCHANGED <<fs, chosen_seds, calls>>
       ELSE /\ calls' = Append(calls,
                  Call("pick_models",
                       [grid |-> modelsedgrid_filename,
                        filters |-> datamodel.filters,
                        mag_cuts |-> mag_cuts,
                        Nfilter |-> "ast_bands_above_maglimit",
                        sizing |-> <<"ast_models_selected_per_age",
                                     "ast_realization_per_model">>,
                        outfile |-> outfile_seds,
                        outfile_params |-> outfile_params]))
            /\ \/ \E t \in SedTables :
                     /\ fs' = [fs EXCEPT ![outfile_seds] = TableWrite(t),
                                         ![outfile_params] = FileOf("fits", t)]
                     /\ chosen_seds' = t
                     /\ pc' = "positions"
                     /\ UNCHANGED error
               \/ /\ fs' = SamplerFailureEffect(fs)
                  /\ error' = "SamplerError"
                  /\ pc' = AfterSelectionFailure
                  /\ UNCHANGED chosen_seds
    /\ UNCHANGED <<datamodel, obsmags, flux_bin_method, mag_cuts,
                   modelsedgrid_filename, prev, cli, race>>

(* lines 76, 115-117 *)
ReadExistingSeds ==
    /\ pc = "select"
    /\ ~CacheMiss
    /\ seds_isfile' = fs[outfile_seds].exists
    /\ calls' = Append(calls, Call("Table.read", [path |-> outfile_seds]))
    /\ chosen_seds' = TableRead(fs[outfile_seds])
    /\ pc' = "positions"
    /\ UNCHANGED <<datamodel, obsmags, fs, flux_bin_method, mag_cuts,
                   modelsedgrid_filename, prev, error, cli, race>>

----------------------------------------------------------------------------
(* Position assignment, lines 125-173 *)

MapArgs(map) ==
    [obsdata |-> "obsdata",
     chosen_seds |-> chosen_seds,
     map |-> map,
     N_bins |-> "ast_N_bins",
     Npermodel |-> "ast_realization_per_model",
     outfile |-> outfile_AST,
     refimage |-> "ast_reference_image",
     set_coord_boundary |-> "ast_coord_boundary"]

(* The invoked strategy writes the manifest and returns, or raises *)
StrategyOutcome(manifest) ==
    \/ /\ fs' = [fs EXCEPT ![outfile_AST] = manifest]
       /\ pc' = PositionsDone
       /\ UNCHANGED error
    \/ /\ fs' = PositionFailureEffect(fs)
       /\ error' = "PositionError"
       /\ pc' = "aborted"

(* line 125 false *)
NoPositions ==
    /\ ReachedPositions
    /\ ~WithPositions
    /\ pc' = "done"
    /\ UNCHANGED <<datamodel, obsmags, fs, flux_bin_method, mag_cuts,
                   modelsedgrid_filename, seds_isfile, chosen_seds, calls,
                   prev, error, cli, race>>

(* lines 133-147 *)
PositionsFromSourceDensity ==
    /\ ReachedPositions
    /\ WithPositions
    /\ UseSourceDensity
    /\ calls' = Append(calls,
          Call("pick_positions_from_map",
               [region_from_filters |-> "all"] @@
               MapArgs(datamodel.ast_source_density_table)))
    /\ StrategyOutcome(Manifest("source_density", chosen_seds))
    /\ UNCHANGED <<datamodel, obsmags, flux_bin_method, mag_cuts,
                   modelsedgrid_filename, seds_isfile, chosen_seds, prev,
                   cli, race>>

(* lines 150-163 *)
PositionsFromBackground ==
    /\ ReachedPositions
    /\ WithPositions
    /\ ~UseSourceDensity
    /\ UseBackground
    /\ calls' = Append(calls,
          Call("pick_positions_from_map",
               MapArgs(datamodel.ast_background_table)))
    /\ StrategyOutcome(Manifest("background", chosen_seds))
    /\ UNCHANGED <<datamodel, obsmags, flux_bin_method, mag_cuts,
                   modelsedgrid_filename, seds_isfile, chosen_seds, prev,
                   cli, race>>

(* lines 167-173 *)
PositionsFromCatalog ==
    /\ ReachedPositions
    /\ WithPositions
    /\ ~UseSourceDensity
    /\ ~UseBackground
    /\ calls' = Append(calls,
          Call("pick_positions",
               [obsdata |-> "obsdata",
                outfile |-> outfile_AST,
                separation |-> "ast_pixel_distribution",
                refimage |-> "ast_reference_image"]))
    /\ StrategyOutcome(Manifest("catalog", None))
    /\ UNCHANGED <<datamodel, obsmags, flux_bin_method, mag_cuts,
                   modelsedgrid_filename, seds_isfile, chosen_seds, prev,
                   cli, race>>

----------------------------------------------------------------------------

Next ==
    \/ StartRun
    \/ ConstructMagCuts
    \/ SelectFluxBin
    \/ SelectRandom
    \/ ReadExistingSeds
    \/ NoPositions
    \/ PositionsFromSourceDensity
    \/ PositionsFromBackground
    \/ PositionsFromCatalog

Spec == Init /\ [][Next]_vars

----------------------------------------------------------------------------
(* The script, lines 176-192: every invocation is a new process that      *)
(* parses its arguments, loads the configuration as it then is and calls  *)
(* make_ast_inputs.                                                       *)

ArgvChoices ==
    {<<>>, <<"--flux_bin_method", "0">>, <<"--flux_bin_method", "1">>}

(* type=int *)
int(s) == CASE s = "0" -> 0 [] s = "1" -> 1

bool(n) == n # 0

(* lines 178-186: default=1 *)
parse_args(a) ==
    [flux_bin_method |-> IF a = <<>> THEN 1 ELSE int(a[2])]

(* line 191: not any(vars(args).values()) *)
NoTruthyArg(args) == \A k \in DOMAIN args : ~bool(args[k])

ReloadFlags ==
    {f \in PositionFlags :
        ~f.ast_with_positions =>
            (f.ast_source_density_table = None
               /\ f.ast_background_table = None)}

(* The configurations the datamodel file may hold at an invocation: the   *)
(* filter list, the scalar cut or the position flags edited              *)
ReloadConfigs ==
    LET one == Prefix(AllFilters, 1)
    IN {Config(f, PlainCuts, PlainFlags) : f \in FilterLists}
         \cup {Config(one, <<c>>, PlainFlags) : c \in CutValues}
         \cup {Config(one, PlainCuts, flags) : flags \in ReloadFlags}

MainInit ==
    /\ datamodel \in ReloadConfigs
    /\ obsmags = PlainCatalog(Prefix(AllFilters, MaxFilters))
    /\ fs \in InitialDirs
    /\ InitLocals
    /\ NoScript
    /\ NoRace

(* lines 186-188 *)
MainStart ==
    /\ pc \in {"idle", "exit", "aborted"}
    /\ \E a \in ArgvChoices, dm \in ReloadConfigs :
          /\ argv' = a
          /\ BeginRun(bool(parse_args(a).flux_bin_method), dm)
    /\ help_printed' = FALSE

(* lines 190-192, reached when make_ast_inputs has returned *)
MainEpilogue ==
    /\ pc = "done"
    /\ help_printed' = NoTruthyArg(parse_args(argv))
    /\ pc' = "exit"
    /\ UNCHANGED <<datamodel, obsmags, fs, flux_bin_method, mag_cuts,
                   modelsedgrid_filename, seds_isfile, chosen_seds, calls,
                   prev, error, argv, race>>

MainNext ==
    \/ MainStart
    \/ ConstructMagCuts
    \/ SelectFluxBin
    \/ SelectRandom
    \/ ReadExistingSeds
    \/ NoPositions
    \/ PositionsFromSourceDensity
    \/ PositionsFromBackground
    \/ PositionsFromCatalog
    \/ MainEpilogue

MainSpec == MainInit /\ [][MainNext]_vars

----------------------------------------------------------------------------
(* Two runs of make_ast_inputs for the same project at the same time,     *)
(* lines 76-117: the cache check and the sampler call of a run are        *)
(* separate steps, and the files of the project are shared.               *)

RaceInit ==
    /\ datamodel = Config(Prefix(AllFilters, 1), PlainCuts, PlainFlags)
    /\ obsmags = PlainCatalog(Prefix(AllFilters, 1))
    /\ fs \in InitialDirs
    /\ InitLocals
    /\ NoScript
    /\ rpc = [r \in Runs |-> "check"]
    /\ rmiss = [r \in Runs |-> FALSE]
    /\ rfbm \in [Runs -> BOOLEAN]
    /\ rcalls = <<>>

RaceSeesMissRecheck(r) == rmiss[r] /\ ~isfile(outfile_seds)

(* lines 77-112 run on the outcome of line 76, which is not taken again *)
RaceSeesMiss(r) == rmiss[r]

(* line 76 *)
RaceCheck(r) ==
    /\ rpc[r] = "check"
    /\ rmiss' = [rmiss EXCEPT ![r] = CacheMiss]
    /\ rpc' = [rpc EXCEPT ![r] = IF CacheMiss THEN "sample" ELSE "read"]
    /\ UNCHANGED <<fs, rfbm, rcalls, single, cli>>

(* lines 80-112: the sampler is called *)
RaceInvoke(r) ==
    /\ rpc[r] = "sample"
    /\ IF ~RaceSeesMiss(r)
       THEN /\ rpc' = [rpc EXCEPT ![r] = "read"]
            /\ UNCHANGED rcalls
       ELSE IF rfbm[r]
       THEN /\ rcalls' = Append(rcalls,
                  [run |-> r,
                   fn |-> "pick_models_toothpick_style",
                   outfile |-> outfile_seds])
            /\ rpc' = [rpc EXCEPT ![r] = "sampling"]
       ELSE /\ rpc' = [rpc EXCEPT ![r] = "aborted"]
            /\ UNCHANGED rcalls
    /\ UNCHANGED <<fs, rmiss, rfbm, single, cli>>

(* The sampler writes its files and returns; two samplers writing the     *)
(* same path at the same time may leave either table or a damaged file.   *)
RaceSamplerReturns(r) ==
    /\ rpc[r] = "sampling"
    /\ \E t \in SedTables :
          \E content \in {TableWrite(t)} \cup
                  (IF \E o \in Runs \ {r} : rpc[o] = "sampling"
                   THEN {TruncatedFile} ELSE {}) :
             fs' = [fs EXCEPT ![outfile_seds] = content,
                              ![outfile_params] = FileOf("fits", t),
                              ![bins_outfile] = FileOf("ascii", "fluxbins")]
    /\ rpc' = [rpc EXCEPT ![r] = "end"]
    /\ UNCHANGED <<rmiss, rfbm, rcalls, single, cli>>

(* lines 115-117 *)
RaceRead(r) ==
    /\ rpc[r] = "read"
    /\ rpc' = [rpc EXCEPT ![r] = "end"]
    /\ UNCHANGED <<fs, rmiss, rfbm, rcalls, single, cli>>

RaceNext ==
    \/ \E r \in Runs : RaceCheck(r)
    \/ \E r \in Runs : RaceInvoke(r)
    \/ \E r \in Runs : RaceSamplerReturns(r)
    \/ \E r \in Runs : RaceRead(r)

RaceSpec == RaceInit /\ [][RaceNext]_vars

----------------------------------------------------------------------------
(* Properties *)

CallsOf(F) == {i \in DOMAIN calls : calls[i].fn \in F}

AfterSelection == pc \in {"positions", "done"} \/ error = "PositionError"

(* Failures that come from the inputs or from a collaborator *)
ExternalFailures == {"KeyError", "SamplerError", "PositionError"}

(* C1: a run that finds the SED list at the cache check invokes no        *)
(* sampler, whatever flux_bin_method is, and the chosen SEDs it uses and  *)
(* hands to the position strategy are the content of that file.           *)
C1_CacheHitNoSampling ==
    (AfterSelection /\ seds_isfile) =>
        /\ CallsOf(Samplers) = {}
        /\ chosen_seds = fs[outfile_seds].rows
        /\ \A i \in CallsOf({"pick_positions_from_map"}) :
              calls[i].args.chosen_seds = fs[outfile_seds].rows

C1_Witness ==
    /\ pc = "done"
    /\ seds_isfile
    /\ ~flux_bin_method
    /\ CallsOf({"pick_positions_from_map"}) # {}

(* C2: a run that finds no SED list at the cache check, and in which no   *)
(* collaborator raises, invokes exactly one sampler, the stratified one   *)
(* if flux_bin_method and the random one otherwise, with the grid path,   *)
(* the filters, the cut vector and the minimum-filters threshold, and     *)
(* leaves the SED list persisted.                                         *)
C2_CacheMissDispatch ==
    (pc \in {"positions", "done", "aborted"} /\ ~seds_isfile
        /\ error \notin ExternalFailures) =>
        /\ Cardinality(CallsOf(Samplers)) = 1
        /\ \A i \in CallsOf(Samplers) :
              /\ calls[i].fn = IF flux_bin_method
                               THEN "pick_models_toothpick_style"
                               ELSE "pick_models"
              /\ calls[i].args.grid = sedgrid_path
              /\ calls[i].args.filters = datamodel.filters
              /\ calls[i].args.mag_cuts = mag_cuts
              /\ calls[i].args.Nfilter = "ast_bands_above_maglimit"
        /\ pc # "aborted"
        /\ fs[outfile_seds].exists

(* C3: when the previous run started without a SED list, no collaborator  *)
(* raised in it and this run has the same flux_bin_method, the previous   *)
(* run persisted the SED list and this run invokes no sampler and obtains *)
(* the persisted content.                                                 *)
C3_Idempotence ==
    (prev.ran /\ ~prev.seds_isfile
        /\ prev.error \notin ExternalFailures
        /\ prev.flux_bin_method = flux_bin_method) =>
        /\ prev.seds_after.exists
        /\ AfterSelection =>
              /\ CallsOf(Samplers) = {}
              /\ chosen_seds = prev.seds_after.rows

(* C4: no run invokes both samplers, the flux-bin file is neither passed  *)
(* to the random sampler nor written in a run with flux_bin_method false, *)
(* and no run both reads the cached SED list and invokes a sampler.       *)
C4_OneSamplingPath ==
    /\ Cardinality(CallsOf(Samplers)) <= 1
    /\ \A i \in CallsOf({"pick_models"}) :
          /\ "bins_outfile" \notin DOMAIN calls[i].args
          /\ \A a \in DOMAIN calls[i].args :
                calls[i].args[a] # bins_outfile
    /\ ~(CallsOf({"Table.read"}) # {} /\ CallsOf(Samplers) # {})

C4_MutualExclusion ==
    /\ []C4_OneSamplingPath
    /\ [][~flux_bin_method' => fs'[bins_outfile] = fs[bins_outfile]]_vars

C4_Witness ==
    /\ pc = "done"
    /\ CallsOf({"pick_models_toothpick_style"}) # {}
    /\ fs[bins_outfile].exists
    /\ prev.ran
    /\ ~prev.flux_bin_method

MapCalls(map) ==
    {i \in CallsOf({"pick_positions_from_map"}) : calls[i].args.map = map}

SourceDensityInvoked ==
    /\ datamodel.ast_source_density_table # None
    /\ MapCalls(datamodel.ast_source_density_table) # {}

BackgroundInvoked ==
    /\ datamodel.ast_background_table # None
    /\ MapCalls(datamodel.ast_background_table) # {}

CatalogInvoked == CallsOf({"pick_positions"}) # {}

(* C5: with positions enabled, a strategy is invoked only in its own      *)
(* case, and a run that completes has invoked the source-density strategy *)
(* iff a source-density map is configured, the background strategy iff    *)
(* only a background map is, and the catalog strategy iff neither is.     *)
C5_PositionPriority ==
    datamodel.ast_with_positions =>
        LET sd == datamodel.ast_source_density_table # None
            bg == datamodel.ast_background_table # None
        IN /\ SourceDensityInvoked => sd
           /\ BackgroundInvoked => ~sd /\ bg
           /\ CatalogInvoked => ~sd /\ ~bg
           /\ pc = "done" =>
                 /\ SourceDensityInvoked <=> sd
                 /\ BackgroundInvoked <=> (~sd /\ bg)
                 /\ CatalogInvoked <=> (~sd /\ ~bg)

C5_Witness ==
    /\ pc = "done"
    /\ datamodel.ast_with_positions
    /\ datamodel.ast_source_density_table # None
    /\ datamodel.ast_background_table # None
    /\ SourceDensityInvoked
    /\ ~BackgroundInvoked

(* C6: with ast_with_positions false no position strategy is invoked and  *)
(* no step writes or changes the manifest, whatever maps are configured   *)
(* and whether or not the SED list was cached.                            *)
C6_PositionsDisabled ==
    /\ [](~datamodel.ast_with_positions =>
            CallsOf(PositionStrategies) = {})
    /\ [][~datamodel.ast_with_positions =>
            fs'[outfile_AST] = fs[outfile_AST]]_vars

C6_Witness ==
    /\ pc = "done"
    /\ ~datamodel.ast_with_positions
    /\ datamodel.ast_source_density_table # None
    /\ datamodel.ast_background_table # None
    /\ seds_isfile
    /\ fs[outfile_AST].exists

----------------------------------------------------------------------------
(* The 90th percentile of the valid magnitudes of a filter, by rank *)

ValidRows(f) ==
    IF f \in DOMAIN obsmags
    THEN {r \in DOMAIN obsmags[f] : obsmags[f][r] < Sentinel}
    ELSE {}

OrderStat(f, j) ==
    CHOOSE v \in {obsmags[f][r] : r \in ValidRows(f)} :
        /\ Cardinality({r \in ValidRows(f) : obsmags[f][r] < v}) <= j
        /\ j < Cardinality({r \in ValidRows(f) : obsmags[f][r] <= v})

P90Valid(f) ==
    LET n == Cardinality(ValidRows(f))
        pos == 9 * (n - 1)
        lo == pos \div 10
        hi == IF lo + 1 < n THEN lo + 1 ELSE lo
    IN (10 * OrderStat(f, lo)
          + (pos % 10) * (OrderStat(f, hi) - OrderStat(f, lo))) \div 10

ExpectedCut(f, c) == IF ValidRows(f) = {} THEN NaN ELSE P90Valid(f) + c

SamplerCuts == {calls[i].args.mag_cuts : i \in CallsOf(Samplers)}

CutsResolved ==
    /\ pc \in {"select", "positions", "done", "aborted"}
    /\ error # "KeyError"

PerFilterCut == Len(datamodel.ast_maglimit) = Len(datamodel.filters)

ScalarCut == Len(datamodel.ast_maglimit) = 1

Filters == {datamodel.filters[k] : k \in DOMAIN datamodel.filters}

(* C7 as stated: whenever the configured cut has one value per filter,    *)
(* also with a single filter, the vector resolved and handed to the       *)
(* sampler is the configured vector unchanged.                            *)
C7_PassThroughAnyLength ==
    PerFilterCut =>
        /\ CutsResolved => mag_cuts = datamodel.ast_maglimit
        /\ \A c \in SamplerCuts : c = datamodel.ast_maglimit

(* C7 amended: whenever the configured cut has one value per filter and   *)
(* more than one value, the vector resolved and handed to the sampler is  *)
(* the configured vector unchanged.                                       *)
C7_PassThrough ==
    (PerFilterCut /\ ~ScalarCut) =>
        /\ CutsResolved => mag_cuts = datamodel.ast_maglimit
        /\ \A c \in SamplerCuts : c = datamodel.ast_maglimit

C7_Witness ==
    /\ PerFilterCut
    /\ ~ScalarCut
    /\ datamodel.ast_maglimit \in SamplerCuts
    /\ \E f \in Filters : ValidRows(f) # {}

C9_ScalarOffset ==
    (ScalarCut /\ \A f \in Filters : ValidRows(f) # {}) =>
        /\ CutsResolved =>
              /\ DOMAIN mag_cuts = DOMAIN datamodel.filters
              /\ \A k \in DOMAIN datamodel.filters :
                    mag_cuts[k] = P90Valid(datamodel.filters[k])
                                    + datamodel.ast_maglimit[1]
        /\ \A c \in SamplerCuts : c = mag_cuts

C9_Witness ==
    /\ ScalarCut
    /\ SamplerCuts # {}
    /\ \A f \in Filters : ValidRows(f) # {}
    /\ \E f \in Filters :
          /\ P90Valid(f) \notin {obsmags[f][r] : r \in DOMAIN obsmags[f]}
          /\ obsmags[f][1] > obsmags[f][2]
    /\ \E f \in Filters :
          \E r \in DOMAIN obsmags[f] : obsmags[f][r] >= Sentinel

----------------------------------------------------------------------------
(* Position assignment on a later run *)

(* C11: at the position stage of a run with positions enabled, when the   *)
(* manifest already exists, the step of the stage invokes no position     *)
(* strategy and leaves the manifest as it is.                             *)
C11_PositionStageResumes ==
    [][(pc = "positions" /\ datamodel.ast_with_positions
          /\ fs[outfile_AST].exists) =>
          /\ calls' = calls
          /\ fs'[outfile_AST] = fs[outfile_AST]]_vars

(* C12: every position strategy that is invoked, in each of the three     *)
(* branches, receives the chosen SEDs of the run as an input.             *)
C12_ChosenSedsReachStrategy ==
    \A i \in CallsOf(PositionStrategies) :
        /\ "chosen_seds" \in DOMAIN calls[i].args
        /\ calls[i].args.chosen_seds = chosen_seds

----------------------------------------------------------------------------
(* Artifacts after a failure *)

(* C13: in every state, so at every cache check, the SED list and the     *)
(* manifest are each absent or fully written, a run that meets the SED    *)
(* list at the cache check meets a fully written one, and the run after a *)
(* run whose sampler raised on an absent SED list finds it absent again.  *)
C13_NoPartialArtifact ==
    /\ \A a \in {outfile_seds, outfile_AST} : Complete(fs[a])
    /\ (pc = "select" /\ ~CacheMiss) => fs[outfile_seds].format = "ascii"
    /\ (prev.ran /\ prev.error = "SamplerError" /\ ~prev.seds_isfile
          /\ AfterSelection) => ~seds_isfile

C13_Witness ==
    /\ pc = "done"
    /\ prev.ran
    /\ prev.error = "SamplerError"
    /\ ~seds_isfile
    /\ CallsOf(Samplers) # {}
    /\ Complete(fs[outfile_seds])
    /\ fs[outfile_seds].exists

----------------------------------------------------------------------------
(* The command line *)

(* C14: a script invocation without any flag prints the help and does not *)
(* execute the pipeline: make_ast_inputs is inside a run only when a      *)
(* method flag was given, and an invocation without flag that has ended   *)
(* has printed the help and invoked no collaborator.                      *)
C14_HelpWithoutFlag ==
    /\ pc \in {"cuts", "select", "positions", "done", "aborted"} =>
          argv # <<>>
    /\ (pc = "exit" /\ argv = <<>>) => (help_printed /\ calls = <<>>)

----------------------------------------------------------------------------
(* Order of the stages *)

SelectionCalls == CallsOf(Samplers \cup {"Table.read"})

Invoked(F) == Len(calls') = Len(calls) + 1 /\ calls'[Len(calls')].fn \in F

(* C15: the cut vector is resolved before the cache check and before any  *)
(* sampler: the resolving step neither checks the cache, nor invokes a    *)
(* collaborator, nor touches a file, the vector does not change once the  *)
(* run is at the cache check, and a sampler receives that vector; a       *)
(* position strategy is invoked only from the position stage, after the   *)
(* sampler or the read of the SED list has returned the chosen SEDs.      *)
C15_StageOrder ==
    /\ [](/\ \A i \in SelectionCalls, j \in CallsOf(PositionStrategies) :
               i < j
          /\ CallsOf(PositionStrategies) # {} =>
               (SelectionCalls # {} /\ chosen_seds # None)
          /\ \A i \in CallsOf(Samplers) : calls[i].args.mag_cuts = mag_cuts)
    /\ [][/\ pc = "cuts" =>
               (calls' = calls /\ fs' = fs /\ seds_isfile' = seds_isfile)
          /\ pc \in {"select", "positions"} => mag_cuts' = mag_cuts
          /\ Invoked(Samplers \cup {"Table.read"}) => pc = "select"
          /\ Invoked(PositionStrategies) =>
               (pc = "positions" /\ SelectionCalls # {}
                  /\ chosen_seds # None)]_vars

C15_Witness ==
    /\ pc = "done"
    /\ ScalarCut
    /\ mag_cuts # datamodel.ast_maglimit
    /\ CallsOf(Samplers) # {}
    /\ CallsOf(PositionStrategies) # {}

----------------------------------------------------------------------------
(* Failures *)

SelectionFailures == {"KeyError", "UnboundLocalError", "SamplerError"}

(* C16: when the resolution of the cuts or the invoked sampler raises,    *)
(* the run is aborted: it has invoked no position strategy and a sampler  *)
(* at most once, the manifest is changed only by a step that invokes a    *)
(* position strategy and not by the failing step, and the only step after *)
(* the failure is the start of another run.                               *)
C16_FailureAborts ==
    /\ [](error \in SelectionFailures =>
            /\ pc = "aborted"
            /\ CallsOf(PositionStrategies) = {}
            /\ Cardinality(CallsOf(Samplers)) <= 1
            /\ error = "KeyError" => calls = <<>>)
    /\ [][/\ fs'[outfile_AST] # fs[outfile_AST] =>
               Invoked(PositionStrategies)
          /\ error' \in SelectionFailures =>
               fs'[outfile_AST] = fs[outfile_AST]
          /\ error \in SelectionFailures =>
               (pc' = "cuts" /\ calls' = <<>> /\ prev'.error = error)]_vars

C16_Witness ==
    /\ pc = "aborted"
    /\ error = "SamplerError"
    /\ datamodel.ast_with_positions
    /\ CallsOf(Samplers) # {}
    /\ prev.ran
    /\ prev.error = "SamplerError"

----------------------------------------------------------------------------
(* The manifest *)

(* C17: no run invokes a position strategy more than once, every position *)
(* strategy invoked has the manifest path as its output, a run with       *)
(* positions enabled whose selection succeeded has, when it ends, invoked *)
(* exactly one, and the manifest is changed only by the step that invokes *)
(* the strategy.                                                          *)
C17_ManifestOnce ==
    /\ [](/\ Cardinality(CallsOf(PositionStrategies)) <= 1
          /\ \A i \in CallsOf(PositionStrategies) :
                calls[i].args.outfile = <<project, "_inputAST.txt">>
          /\ (datamodel.ast_with_positions
                /\ (pc \in {"done", "exit"} \/ error = "PositionError")) =>
                Cardinality(CallsOf(PositionStrategies)) = 1)
    /\ [][fs'[outfile_AST] # fs[outfile_AST] =>
             (pc = "positions" /\ Invoked(PositionStrategies)
                /\ CallsOf(PositionStrategies) = {})]_vars

C17_Witness ==
    /\ pc = "done"
    /\ datamodel.ast_with_positions
    /\ Cardinality(CallsOf(PositionStrategies)) = 1
    /\ BackgroundInvoked
    /\ fs[outfile_AST] = Manifest("background", chosen_seds)
    /\ CallsOf(Samplers) # {}

----------------------------------------------------------------------------
(* Two concurrent runs *)

SamplerCallsOf(r) ==
    {i \in DOMAIN rcalls : rcalls[i].run = r /\ rcalls[i].fn \in Samplers}

(* C18: nothing in make_ast_inputs keeps two concurrent runs from both     *)
(* sampling: a run that found the SED list absent at the cache check and  *)
(* uses the flux-bin method goes on to invoke the sampler on the SED list *)
(* path whatever the other run has done meanwhile, and never falls back   *)
(* to reading the file.                                                   *)
C18_RaceNotPrevented ==
    /\ [](\A r \in Runs :
            (rmiss[r] /\ rfbm[r] /\ rpc[r] \in {"sampling", "end"}) =>
                \E i \in SamplerCallsOf(r) :
                    rcalls[i].outfile = <<project, "_inputAST_seds.txt">>)
    /\ [][\A r \in Runs :
            (rpc[r] = "sample" /\ rpc'[r] # "sample") =>
                rpc'[r] \in {"sampling", "aborted"}]_vars

(* Both runs found the file absent and both samplers wrote it *)
C18_Witness ==
    /\ \A r \in Runs :
          /\ rmiss[r]
          /\ rpc[r] = "end"
          /\ SamplerCallsOf(r) # {}
    /\ Len(rcalls) = 2
    /\ fs[outfile_seds].exists

----------------------------------------------------------------------------
(* The cache and the configuration *)

PastSelection ==
    pc \in {"positions", "done", "exit"} \/ error = "PositionError"

(* C19: two successive invocations that both find the SED list at the     *)
(* cache check obtain the same chosen SEDs and invoke the same samplers,  *)
(* none, however their method flag, filter list and cuts differ.          *)
C19_CacheHitIgnoresConfig ==
    (prev.ran /\ prev.seds_isfile /\ seds_isfile /\ PastSelection) =>
        /\ chosen_seds = prev.chosen_seds
        /\ Fns(calls) \cap Samplers = prev.samplers
        /\ prev.samplers = {}

C19_Witness ==
    /\ pc = "exit"
    /\ prev.ran
    /\ prev.seds_isfile
    /\ seds_isfile
    /\ prev.flux_bin_method # flux_bin_method
    /\ prev.datamodel.filters # datamodel.filters
    /\ prev.datamodel.ast_maglimit # datamodel.ast_maglimit
    /\ chosen_seds = prev.chosen_seds

----------------------------------------------------------------------------
(* What a cache hit leaves alone *)

SelectionArtifacts == {outfile_seds, outfile_params, bins_outfile}

(* C20: the SED list, the parameter file and the flux-bin file are        *)
(* changed only by the step that invokes a sampler at a cache check that  *)
(* found the SED list absent, the flux-bin file only by the flux-bin      *)
(* sampler: no step of a run that found the SED list, and no step of the  *)
(* position stage, changes any of them.                                   *)
C20_CacheHitFrame ==
    [][\A a \in SelectionArtifacts :
          fs'[a] # fs[a] =>
              /\ pc = "select"
              /\ ~fs[outfile_seds].exists
              /\ Invoked(Samplers)
              /\ a = bins_outfile =>
                    Invoked({"pick_models_toothpick_style"})]_vars

C20_Witness ==
    /\ pc = "done"
    /\ seds_isfile
    /\ CallsOf({"Table.read"}) # {}
    /\ CallsOf(PositionStrategies) # {}
    /\ prev.ran
    /\ prev.samplers # {}
    /\ prev.seds_after = fs[outfile_seds]
    /\ fs[outfile_params].exists
    /\ fs[bins_outfile].exists

====
